---- MODULE Spec2Model ----
(***************************************************************************)
(* deploy-kit (src/main.py): one run of the command line program, from     *)
(* DeployKit() to process exit.  The program is a dispatcher that loads a  *)
(* JSON configuration, then runs one of deploy / status / restart / backup *)
(* around child processes (bash, sudo systemctl, cp).                      *)
(*                                                                         *)
(* A run is cut into steps at every blocking call of subprocess.run: the   *)
(* step that reaches the call spawns the child (or gets OSError), the next *)
(* step is the child's completion.  The file system, the clock and the     *)
(* children are the environment: their answers are chosen with \E.         *)
(***************************************************************************)
EXTENDS Integers, Sequences, FiniteSets, TLC

\* ---------------------------------------------------------------- bounds
MaxServices == 2   \* longest configured service list
MaxExit == 2       \* largest exit code a child returns

\* ------------------------------------------------------- python dicts
\* A dict is a function whose domain is the set of keys present.
EmptyDict == [k \in {} |-> TRUE]

Restrict(d, S) == [k \in S |-> d[k]]

\* dict.get(key): None when the key is absent.  None is written "None";
\* no modelled configuration value is that string.
None == "None"

\* dict.get(key, default)
Get(d, k, default) == IF k \in DOMAIN d THEN d[k] ELSE default

SeqsUpTo(S, n) == UNION {[1..k -> S] : k \in 0..n}

\* ------------------------------------------------------ the environment
ConfigKeys == {"environment", "logLevel", "deploymentPath", "backupEnabled", "services"}
Envs == {"production"}
LogLevels == {"debug", "ERROR", "verbose"}
DeployPaths == {"/srv/app"}
ServiceNames == {"nginx", "app"}

\* Every JSON object that fits the data model: each recognised key is
\* either absent or holds a value of its type.
FullConfigs ==
  [environment : Envs, logLevel : LogLevels, deploymentPath : DeployPaths,
   backupEnabled : BOOLEAN, services : SeqsUpTo(ServiceNames, MaxServices)]

ConfigObjects == {Restrict(r, S) : r \in FullConfigs, S \in SUBSET ConfigKeys}

\* The configuration file: missing, unreadable (open raises), malformed
\* (json.load raises) or a JSON object.
ConfigFiles ==
  {[kind |-> k, content |-> EmptyDict] : k \in {"missing", "unreadable", "malformed"}}
    \cup {[kind |-> "object", content |-> c] : c \in ConfigObjects}

ScriptArgs == {"custom"}
PathArgs == {"", "/backups/site"}

\* sys.argv; argv[1] here is sys.argv[0], the program name.
Argvs ==
  {<<"main.py">>, <<"main.py", "status">>, <<"main.py", "restart">>,
   <<"main.py", "deploy">>, <<"main.py", "backup">>, <<"main.py", "rollback">>}
    \cup {<<"main.py", "deploy", s>> : s \in ScriptArgs}
    \cup {<<"main.py", "backup", p>> : p \in PathArgs}

StdoutTexts == {"deployed\n"}
StderrTexts == {"", "boom\n"}
LaunchErrors == {"[Errno 2] No such file or directory"}

\* What a child that was spawned ends with.
Outcomes == [rc : 0..MaxExit, out : StdoutTexts, err : StderrTexts]

\* datetime.now(): the instants the clock may show.
Instants ==
  {[Y |-> "2024", m |-> "01", d |-> "31", H |-> "23", M |-> "59", S |-> "58"],
   [Y |-> "2024", m |-> "02", d |-> "01", H |-> "00", M |-> "00", S |-> "00"]}

\* strftime('%Y%m%d_%H%M%S')
strftime(t) == t.Y \o t.m \o t.d \o "_" \o t.H \o t.M \o t.S

\* datetime.isoformat(), to the second
isoformat(t) == t.Y \o "-" \o t.m \o "-" \o t.d \o "T" \o t.H \o ":" \o t.M \o ":" \o t.S

\* ------------------------------------------------------------- logging
\* The level names of the logging module and their numbers.
LevelValue ==
  [CRITICAL |-> 50, FATAL |-> 50, ERROR |-> 40, WARNING |-> 30, WARN |-> 30,
   INFO |-> 20, DEBUG |-> 10, NOTSET |-> 0]

\* str.upper() on the modelled level strings
Upper(s) ==
  CASE s = "debug" -> "DEBUG"
    [] s = "verbose" -> "VERBOSE"
    [] OTHER -> s

\* logger.<level>(msg): the line is emitted when the level passes the
\* threshold basicConfig set.
Emit(lines, threshold, level, msg) ==
  IF LevelValue[level] >= threshold
    THEN Append(lines, [level |-> level, msg |-> msg])
    ELSE lines

\* ------------------------------------------------------------ the state
VARIABLES
  configFile,   \* the configuration file on disk
  argv,         \* sys.argv
  pc,           \* where the run is
  config,       \* self.config
  logThreshold, \* the level given to logging.basicConfig
  logs,         \* the log lines emitted
  stdout,       \* the lines printed
  status,       \* the snapshot get_status returned and main printed
  result,       \* the dict execute_deployment / backup_deployment returned
  invoked,      \* the argument vectors given to subprocess.run, in order
  children,     \* the child processes alive
  completed,    \* the children that ended: argument vector and outcome
  scriptExists, \* what script_path.exists() answered
  idx,          \* restart_services: position in the services list
  exitStatus,   \* the process exit status, -1 while running
  unhandled     \* an exception left main unhandled

vars ==
  <<configFile, argv, pc, config, logThreshold, logs, stdout, status, result,
    invoked, children, completed, scriptExists, idx, exitStatus, unhandled>>

Init ==
  /\ configFile \in ConfigFiles
  /\ argv \in Argvs
  /\ pc = "load_config"
  /\ config = EmptyDict
  /\ logThreshold = -1
  /\ logs = <<>>
  /\ stdout = <<>>
  /\ status = EmptyDict
  /\ result = EmptyDict
  /\ invoked = <<>>
  /\ children = {}
  /\ completed = <<>>
  /\ scriptExists = FALSE
  /\ idx = 0
  /\ exitStatus = -1
  /\ unhandled = FALSE

\* --------------------------------------------------------- construction
get_default_config ==
  [environment |-> "development", logLevel |-> "INFO",
   deploymentPath |-> "/var/www/html", backupEnabled |-> TRUE, services |-> <<>>]

load_config ==
  /\ pc = "load_config"
  /\ CASE configFile.kind = "object" ->
            /\ config' = configFile.content
            /\ stdout' = stdout
       [] configFile.kind = "missing" ->
            /\ config' = get_default_config
            /\ stdout' = Append(stdout, "Config file not found, using defaults")
       [] OTHER ->
            /\ config' = get_default_config
            /\ stdout' = Append(stdout, "Failed to load config")
  /\ pc' = "setup_logging"
  /\ UNCHANGED <<configFile, argv, logThreshold, logs, status, result, invoked,
                 children, completed, scriptExists, idx, exitStatus, unhandled>>

\* getattr(logging, NAME) raises AttributeError for a name that is no level
\* of the logging module; nothing catches it, the interpreter prints the
\* traceback and exits with status 1.
setup_logging ==
  /\ pc = "setup_logging"
  /\ LET name == Upper(Get(config, "logLevel", "INFO"))
     IN IF name \in DOMAIN LevelValue
          THEN /\ logThreshold' = LevelValue[name]
               /\ pc' = "main"
               /\ UNCHANGED <<exitStatus, unhandled>>
          ELSE /\ unhandled' = TRUE
               /\ exitStatus' = 1
               /\ pc' = "done"
               /\ UNCHANGED logThreshold
  /\ UNCHANGED <<configFile, argv, config, logs, stdout, status, result, invoked,
                 children, completed, scriptExists, idx>>

\* ------------------------------------------------------ child processes
\* subprocess.run(argv, ...) up to the spawn: the call is recorded, and the
\* child is alive from here until its completion step.
Spawned(a) == [pid |-> Len(invoked) + 1, argv |-> a]

\* ------------------------------------------------------------------ main
\* len(sys.argv) < 2: print the usage text and return.
main_usage ==
  /\ pc = "main"
  /\ Len(argv) < 2
  /\ stdout' = Append(stdout, "Deploy-Kit Usage:")
  /\ pc' = "done"
  /\ exitStatus' = 0
  /\ UNCHANGED <<configFile, argv, config, logThreshold, logs, status, result,
                 invoked, children, completed, scriptExists, idx, unhandled>>

main_unknown ==
  /\ pc = "main"
  /\ Len(argv) >= 2
  /\ argv[2] \notin {"deploy", "status", "restart", "backup"}
  /\ stdout' = Append(stdout, "Unknown command: " \o argv[2])
  /\ pc' = "done"
  /\ exitStatus' = 1
  /\ UNCHANGED <<configFile, argv, config, logThreshold, logs, status, result,
                 invoked, children, completed, scriptExists, idx, unhandled>>

\* ---------------------------------------------------------------- deploy
ScriptPath(script_name) == "scripts/" \o script_name \o ".sh"

\* main's deploy branch and execute_deployment up to the blocking call.
execute_deployment ==
  /\ pc = "main"
  /\ Len(argv) >= 2
  /\ argv[2] = "deploy"
  /\ LET script_name == IF Len(argv) > 2 THEN argv[3] ELSE "deploy"
         script_path == ScriptPath(script_name)
         l1 == Emit(logs, logThreshold, "INFO", "Starting deployment: " \o script_name)
         l2 == Emit(l1, logThreshold, "INFO", "Executing script: " \o script_path)
     IN \E exists \in BOOLEAN :
          /\ scriptExists' = exists
          /\ IF ~exists
               THEN LET msg == "Deployment script not found: " \o script_path
                    IN /\ logs' = Emit(l1, logThreshold, "ERROR", "Deployment failed: " \o msg)
                       /\ result' = [success |-> FALSE, error |-> msg]
                       /\ pc' = "deploy_exit"
                       /\ UNCHANGED <<invoked, children>>
               ELSE /\ invoked' = Append(invoked, <<"bash", script_path>>)
                    /\ \/ /\ children' = children \cup {Spawned(<<"bash", script_path>>)}
                          /\ logs' = l2
                          /\ pc' = "deploy_wait"
                          /\ UNCHANGED result
                       \/ \E msg \in LaunchErrors :
                            /\ logs' = Emit(l2, logThreshold, "ERROR", "Deployment failed: " \o msg)
                            /\ result' = [success |-> FALSE, error |-> msg]
                            /\ pc' = "deploy_exit"
                            /\ UNCHANGED children
  /\ UNCHANGED <<configFile, argv, config, logThreshold, stdout, status, completed,
                 idx, exitStatus, unhandled>>

\* Mutant of execute_deployment_wait: subprocess.run without check=True, so
\* a non-zero exit code raises nothing and is reported as a success.
execute_deployment_wait_unchecked ==
  /\ pc = "deploy_wait"
  /\ \E c \in children, o \in Outcomes :
       /\ children' = children \ {c}
       /\ completed' = Append(completed, [argv |-> c.argv, rc |-> o.rc, out |-> o.out, err |-> o.err])
       /\ logs' = Emit(Emit(logs, logThreshold, "INFO", "Deployment completed successfully"),
                       logThreshold, "INFO", "Output: " \o o.out)
       /\ result' = [success |-> TRUE, output |-> o.out, stderr |-> o.err]
  /\ pc' = "deploy_exit"
  /\ UNCHANGED <<configFile, argv, config, logThreshold, stdout, status, invoked,
                 scriptExists, idx, exitStatus, unhandled>>

\* Mutant of execute_deployment_wait: the failure record also carries the
\* captured standard output.
execute_deployment_wait_with_output ==
  /\ pc = "deploy_wait"
  /\ \E c \in children, o \in Outcomes :
       /\ children' = children \ {c}
       /\ completed' = Append(completed, [argv |-> c.argv, rc |-> o.rc, out |-> o.out, err |-> o.err])
       /\ IF o.rc = 0
            THEN /\ logs' = Emit(Emit(logs, logThreshold, "INFO", "Deployment completed successfully"),
                                 logThreshold, "INFO", "Output: " \o o.out)
                 /\ result' = [success |-> TRUE, output |-> o.out, stderr |-> o.err]
            ELSE /\ logs' = Emit(logs, logThreshold, "ERROR",
                                 "Deployment failed with exit code " \o ToString(o.rc) \o ": " \o o.err)
                 /\ result' = [success |-> FALSE, output |-> o.out, error |-> o.err, exit_code |-> o.rc]
  /\ pc' = "deploy_exit"
  /\ UNCHANGED <<configFile, argv, config, logThreshold, stdout, status, invoked,
                 scriptExists, idx, exitStatus, unhandled>>

\* The script ended: check=True raises CalledProcessError on a non-zero
\* exit code.
execute_deployment_wait ==
  /\ pc = "deploy_wait"
  /\ \E c \in children, o \in Outcomes :
       /\ children' = children \ {c}
       /\ completed' = Append(completed, [argv |-> c.argv, rc |-> o.rc, out |-> o.out, err |-> o.err])
       /\ IF o.rc = 0
            THEN /\ logs' = Emit(Emit(logs, logThreshold, "INFO", "Deployment completed successfully"),
                                 logThreshold, "INFO", "Output: " \o o.out)
                 /\ result' = [success |-> TRUE, output |-> o.out, stderr |-> o.err]
            ELSE /\ logs' = Emit(logs, logThreshold, "ERROR",
                                 "Deployment failed with exit code " \o ToString(o.rc) \o ": " \o o.err)
                 /\ result' = [success |-> FALSE, error |-> o.err, exit_code |-> o.rc]
  /\ pc' = "deploy_exit"
  /\ UNCHANGED <<configFile, argv, config, logThreshold, stdout, status, invoked,
                 scriptExists, idx, exitStatus, unhandled>>

\* if not result['success']: sys.exit(1)
main_deploy_exit ==
  /\ pc = "deploy_exit"
  /\ exitStatus' = IF result.success THEN 0 ELSE 1
  /\ pc' = "done"
  /\ UNCHANGED <<configFile, argv, config, logThreshold, logs, stdout, status, result,
                 invoked, children, completed, scriptExists, idx, unhandled>>

\* ---------------------------------------------------------------- status
get_status(now) ==
  [environment |-> Get(config, "environment", None),
   timestamp |-> isoformat(now),
   config |-> config,
   services |-> Get(config, "services", <<>>)]

\* Mutant of main_status: the services are read with
\* config.setdefault('services', []), which writes the key into the
\* configuration.
main_status_setdefault ==
  /\ pc = "main"
  /\ Len(argv) >= 2
  /\ argv[2] = "status"
  /\ config' = [k \in DOMAIN config \cup {"services"} |->
                  IF k \in DOMAIN config THEN config[k] ELSE <<>>]
  /\ \E now \in Instants : status' = get_status(now)
  /\ stdout' = Append(stdout, "json.dumps(status)")
  /\ pc' = "done"
  /\ exitStatus' = 0
  /\ UNCHANGED <<configFile, argv, logThreshold, logs, result, invoked,
                 children, completed, scriptExists, idx, unhandled>>

\* main prints json.dumps(status); the snapshot printed is kept in status.
main_status ==
  /\ pc = "main"
  /\ Len(argv) >= 2
  /\ argv[2] = "status"
  /\ \E now \in Instants : status' = get_status(now)
  /\ stdout' = Append(stdout, "json.dumps(status)")
  /\ pc' = "done"
  /\ exitStatus' = 0
  /\ UNCHANGED <<configFile, argv, config, logThreshold, logs, result, invoked,
                 children, completed, scriptExists, idx, unhandled>>

\* --------------------------------------------------------------- restart
SystemctlRestart(service) == <<"sudo", "systemctl", "restart", service>>

\* After the iteration for services[idx]: the next one, or the end of the
\* loop, the return of restart_services and the normal end of main.
NextService ==
  IF idx < Len(Get(config, "services", <<>>))
    THEN /\ idx' = idx + 1
         /\ pc' = "restart_loop"
         /\ UNCHANGED exitStatus
    ELSE /\ pc' = "done"
         /\ exitStatus' = 0
         /\ UNCHANGED idx

\* main's restart branch and restart_services up to the loop.
main_restart ==
  /\ pc = "main"
  /\ Len(argv) >= 2
  /\ argv[2] = "restart"
  /\ LET services == Get(config, "services", <<>>)
         l1 == Emit(logs, logThreshold, "INFO", "Restarting services...")
     IN IF services = <<>>
          THEN /\ logs' = Emit(l1, logThreshold, "WARNING", "No services configured for restart")
               /\ pc' = "done"
               /\ exitStatus' = 0
               /\ UNCHANGED idx
          ELSE /\ logs' = l1
               /\ idx' = 1
               /\ pc' = "restart_loop"
               /\ UNCHANGED exitStatus
  /\ UNCHANGED <<configFile, argv, config, logThreshold, stdout, status, result,
                 invoked, children, completed, scriptExists, unhandled>>

\* Mutant of restart_services: the service manager is started without
\* waiting for it (Popen instead of run), and the loop goes on at once.
restart_services_nowait ==
  /\ pc = "restart_loop"
  /\ LET service == Get(config, "services", <<>>)[idx]
         l1 == Emit(logs, logThreshold, "INFO", "Restarting service: " \o service)
     IN /\ invoked' = Append(invoked, SystemctlRestart(service))
        /\ \/ /\ children' = children \cup {Spawned(SystemctlRestart(service))}
              /\ logs' = l1
           \/ \E msg \in LaunchErrors :
                /\ logs' = Emit(l1, logThreshold, "ERROR",
                                "Failed to restart service " \o service \o ": " \o msg)
                /\ UNCHANGED children
        /\ NextService
  /\ UNCHANGED <<configFile, argv, config, logThreshold, stdout, status, result,
                 completed, scriptExists, unhandled>>

\* One iteration of the loop up to the blocking call: the service manager
\* is spawned, or the launch fails and the failure is logged.
restart_services ==
  /\ pc = "restart_loop"
  /\ LET service == Get(config, "services", <<>>)[idx]
         l1 == Emit(logs, logThreshold, "INFO", "Restarting service: " \o service)
     IN /\ invoked' = Append(invoked, SystemctlRestart(service))
        /\ \/ /\ children' = children \cup {Spawned(SystemctlRestart(service))}
              /\ logs' = l1
              /\ pc' = "restart_wait"
              /\ UNCHANGED <<idx, exitStatus>>
           \/ \E msg \in LaunchErrors :
                /\ logs' = Emit(l1, logThreshold, "ERROR",
                                "Failed to restart service " \o service \o ": " \o msg)
                /\ NextService
                /\ UNCHANGED children
  /\ UNCHANGED <<configFile, argv, config, logThreshold, stdout, status, result,
                 completed, scriptExists, unhandled>>

\* Mutant of restart_services_wait: the try encloses the whole loop, so the
\* first failing service ends it.
restart_services_wait_abort ==
  /\ pc = "restart_wait"
  /\ LET service == Get(config, "services", <<>>)[idx]
     IN \E c \in children, o \in Outcomes :
          /\ children' = children \ {c}
          /\ completed' = Append(completed, [argv |-> c.argv, rc |-> o.rc, out |-> o.out, err |-> o.err])
          /\ IF o.rc = 0
               THEN /\ logs' = Emit(logs, logThreshold, "INFO",
                                    "Service " \o service \o " restarted successfully")
                    /\ NextService
               ELSE /\ logs' = Emit(logs, logThreshold, "ERROR",
                                    "Failed to restart service " \o service \o ": " \o o.err)
                    /\ pc' = "done"
                    /\ exitStatus' = 0
                    /\ UNCHANGED idx
  /\ UNCHANGED <<configFile, argv, config, logThreshold, stdout, status, result,
                 invoked, scriptExists, unhandled>>

\* The service manager ended; a non-zero exit code is logged and the loop
\* goes on.
restart_services_wait ==
  /\ pc = "restart_wait"
  /\ LET service == Get(config, "services", <<>>)[idx]
     IN \E c \in children, o \in Outcomes :
          /\ children' = children \ {c}
          /\ completed' = Append(completed, [argv |-> c.argv, rc |-> o.rc, out |-> o.out, err |-> o.err])
          /\ logs' = IF o.rc = 0
                       THEN Emit(logs, logThreshold, "INFO",
                                 "Service " \o service \o " restarted successfully")
                       ELSE Emit(logs, logThreshold, "ERROR",
                                 "Failed to restart service " \o service \o ": " \o o.err)
  /\ NextService
  /\ UNCHANGED <<configFile, argv, config, logThreshold, stdout, status, result,
                 invoked, scriptExists, unhandled>>

\* ---------------------------------------------------------------- backup
\* if not backup_path: None and the empty string both take the derived
\* destination.
BackupPath(backup_path, deployment_path, now) ==
  IF backup_path = None \/ backup_path = ""
    THEN deployment_path \o "_backup_" \o strftime(now)
    ELSE backup_path

\* Mutant of BackupDisabled: the key is misspelt, so the default always
\* applies and backup is never disabled.
BackupDisabled_wrong_key == ~Get(config, "backup_enabled", TRUE)

\* if not self.config.get('backupEnabled', True)
BackupDisabled == ~Get(config, "backupEnabled", TRUE)

\* main's backup branch and backup_deployment up to the blocking call.
backup_deployment ==
  /\ pc = "main"
  /\ Len(argv) >= 2
  /\ argv[2] = "backup"
  /\ LET arg == IF Len(argv) > 2 THEN argv[3] ELSE None
     IN IF BackupDisabled
          THEN /\ logs' = Emit(logs, logThreshold, "INFO", "Backup is disabled in configuration")
               /\ result' = [success |-> FALSE, reason |-> "Backup disabled"]
               /\ pc' = "backup_exit"
               /\ UNCHANGED <<invoked, children>>
          ELSE \E now \in Instants :
                 LET deployment_path == Get(config, "deploymentPath", "/var/www/html")
                     backup_path == BackupPath(arg, deployment_path, now)
                     cp == <<"cp", "-r", deployment_path, backup_path>>
                     l1 == Emit(logs, logThreshold, "INFO",
                                "Creating backup: " \o deployment_path \o " -> " \o backup_path)
                 IN /\ invoked' = Append(invoked, cp)
                    /\ \/ /\ children' = children \cup {Spawned(cp)}
                          /\ logs' = l1
                          /\ pc' = "backup_wait"
                          /\ UNCHANGED result
                       \/ \E msg \in LaunchErrors :
                            /\ logs' = Emit(l1, logThreshold, "ERROR", "Backup failed: " \o msg)
                            /\ result' = [success |-> FALSE, error |-> msg]
                            /\ pc' = "backup_exit"
                            /\ UNCHANGED children
  /\ UNCHANGED <<configFile, argv, config, logThreshold, stdout, status, completed,
                 scriptExists, idx, exitStatus, unhandled>>

\* cp ended: check=True raises CalledProcessError on a non-zero exit code,
\* which except Exception turns into the error result.
backup_deployment_wait ==
  /\ pc = "backup_wait"
  /\ \E c \in children, o \in Outcomes :
       /\ children' = children \ {c}
       /\ completed' = Append(completed, [argv |-> c.argv, rc |-> o.rc, out |-> o.out, err |-> o.err])
       /\ IF o.rc = 0
            THEN /\ logs' = Emit(logs, logThreshold, "INFO",
                                 "Backup created successfully: " \o c.argv[4])
                 /\ result' = [success |-> TRUE, backup_path |-> c.argv[4]]
            ELSE LET msg == "Command cp returned non-zero exit status " \o ToString(o.rc)
                 IN /\ logs' = Emit(logs, logThreshold, "ERROR", "Backup failed: " \o msg)
                    /\ result' = [success |-> FALSE, error |-> msg]
  /\ pc' = "backup_exit"
  /\ UNCHANGED <<configFile, argv, config, logThreshold, stdout, status, invoked,
                 scriptExists, idx, exitStatus, unhandled>>

\* if not result['success']: sys.exit(1)
main_backup_exit ==
  /\ pc = "backup_exit"
  /\ exitStatus' = IF result.success THEN 0 ELSE 1
  /\ pc' = "done"
  /\ UNCHANGED <<configFile, argv, config, logThreshold, logs, stdout, status, result,
                 invoked, children, completed, scriptExists, idx, unhandled>>

Next ==
  \/ load_config
  \/ setup_logging
  \/ main_usage
  \/ main_unknown
  \/ execute_deployment
  \/ execute_deployment_wait
  \/ main_deploy_exit
  \/ main_status
  \/ main_restart
  \/ restart_services
  \/ restart_services_wait
  \/ backup_deployment
  \/ backup_deployment_wait
  \/ main_backup_exit

Spec == Init /\ [][Next]_vars

\* ======================================================== the properties
Command == IF Len(argv) >= 2 THEN argv[2] ELSE ""

Services == Get(config, "services", <<>>)

\* The run reached its command and ended without an unhandled exception.
Ended == pc = "done" /\ ~unhandled

\* The restart calls the configured services ask for, in configured order.
ExpectedRestarts == [i \in 1..Len(Services) |-> SystemctlRestart(Services[i])]

\* C1: restart attempts the restart of every configured service exactly
\* once and in configured order, whatever the outcome of each attempt (exit
\* code zero, non-zero, or failure to launch the service manager): while the
\* loop runs the attempts made are a prefix of the configured list, and when
\* restart has ended they are the whole list.
C1_RestartAttemptsEveryService ==
  (Command = "restart" /\ pc \in {"restart_loop", "restart_wait", "done"}) =>
    /\ Len(invoked) <= Len(ExpectedRestarts)
    /\ invoked = SubSeq(ExpectedRestarts, 1, Len(invoked))
    /\ pc = "restart_loop" => Len(invoked) = idx - 1
    /\ pc = "restart_wait" => Len(invoked) = idx
    /\ Ended => invoked = ExpectedRestarts

\* The first of two services failed with a non-zero exit code and the second
\* was attempted all the same.
C1_Witness ==
  /\ Command = "restart"
  /\ Ended
  /\ Len(Services) = 2
  /\ Len(invoked) = 2
  /\ Len(completed) >= 1
  /\ completed[1].argv = SystemctlRestart(Services[1])
  /\ completed[1].rc # 0

\* C2: deploy classifies every outcome of the script into exactly one
\* result: script absent -> success false with an error, nothing launched;
\* exit code 0 -> success true with the captured standard output; exit code
\* n # 0 -> success false with the captured standard error and exit code n;
\* launch failure -> success false with the message and no exit code.
C2_DeployClassifies ==
  (Command = "deploy" /\ pc \in {"deploy_exit", "done"} /\ ~unhandled) =>
    CASE ~scriptExists ->
           /\ result.success = FALSE
           /\ DOMAIN result = {"success", "error"}
           /\ invoked = <<>>
           /\ children = {}
      [] scriptExists /\ completed = <<>> ->
           /\ result.success = FALSE
           /\ DOMAIN result = {"success", "error"}
           /\ result.error \in LaunchErrors
      [] scriptExists /\ completed # <<>> /\ completed[1].rc = 0 ->
           /\ result.success = TRUE
           /\ result.output = completed[1].out
      [] OTHER ->
           /\ result.success = FALSE
           /\ result.error = completed[1].err
           /\ result.exit_code = completed[1].rc

\* A script that exits 2 with text on standard error.
C2_Witness ==
  /\ Command = "deploy"
  /\ Ended
  /\ Len(completed) = 1
  /\ completed[1].rc = 2
  /\ completed[1].err = "boom\n"
  /\ result.exit_code = 2

\* C3 (as claimed): the exit status follows the command: deploy and backup
\* exit 0 exactly when their result has success true and 1 exactly when it
\* has success false; status and restart always exit 0; no arguments exits
\* 0 and an unknown command exits 1.
C3_ExitStatusFollowsCommand ==
  pc = "done" =>
    CASE Command \in {"deploy", "backup"} ->
           /\ "success" \in DOMAIN result
           /\ exitStatus = (IF result.success THEN 0 ELSE 1)
      [] Command \in {"status", "restart"} -> exitStatus = 0
      [] Command = "" -> exitStatus = 0
      [] OTHER -> exitStatus = 1

\* C4 (as claimed): for every configuration that fits the data model and
\* every outcome of every child, a run ends with status 0 or 1 and no fault
\* propagates unhandled out of startup or out of an action.
C4_NoUnhandledFault ==
  /\ ~unhandled
  /\ pc = "done" => exitStatus \in {0, 1}

\* C5: when backupEnabled is false in the configuration, backup launches no
\* child process (so no copy is made) and returns success false with reason
\* "Backup disabled", with or without a destination argument.
C5_DisabledBackupDoesNothing ==
  (Command = "backup" /\ "backupEnabled" \in DOMAIN config /\ config.backupEnabled = FALSE) =>
    /\ invoked = <<>>
    /\ children = {}
    /\ completed = <<>>
    /\ pc \notin {"backup_wait"}
    /\ Ended => /\ result = [success |-> FALSE, reason |-> "Backup disabled"]
                /\ exitStatus = 1

\* A disabled backup that was given a destination.
C5_Witness ==
  /\ Command = "backup"
  /\ Ended
  /\ Len(argv) = 3
  /\ argv[3] # ""
  /\ "backupEnabled" \in DOMAIN config
  /\ config.backupEnabled = FALSE
  /\ "reason" \in DOMAIN result

\* C6 (as claimed): when backup is enabled, the copy's destination is the
\* supplied path whenever one is supplied, the empty string included, and
\* the derived <deploymentPath>_backup_<timestamp> only when none is; the
\* source is always the configured deployment path.
C6_DestinationIsSuppliedPath ==
  (Command = "backup" /\ invoked # <<>>) =>
    LET deployment_path == Get(config, "deploymentPath", "/var/www/html")
    IN /\ invoked[1][3] = deployment_path
       /\ Len(argv) > 2 => invoked[1][4] = argv[3]
       /\ Len(argv) = 2 =>
            \E now \in Instants : invoked[1][4] = deployment_path \o "_backup_" \o strftime(now)

\* C7 (as claimed): a recognised key the file does not supply takes its
\* documented default in everything the actions observe and report: the
\* configuration is the default configuration when the file is missing,
\* unreadable or malformed, and status reports the default environment when
\* the file is an object without that key.
C7_MissingKeysTakeDefaults ==
  /\ (pc # "load_config" /\ configFile.kind # "object") => config = get_default_config
  /\ (Command = "status" /\ Ended) =>
       /\ status.environment = Get(configFile.content, "environment", get_default_config.environment)
       /\ status.services = Get(configFile.content, "services", get_default_config.services)

\* C8: every result of deploy and of backup is unambiguous: one with success
\* true carries neither an error nor an exit code, one with success false
\* carries neither the captured output nor a backup path.
C8_ResultUnambiguous ==
  DOMAIN result # {} =>
    /\ "success" \in DOMAIN result
    /\ result.success => DOMAIN result \cap {"error", "exit_code", "reason"} = {}
    /\ ~result.success => DOMAIN result \cap {"output", "backup_path"} = {}

\* A successful deploy, whose record also holds the captured standard error.
C8_Witness ==
  /\ Command = "deploy"
  /\ Ended
  /\ result.success
  /\ DOMAIN result = {"success", "output", "stderr"}

\* C9: at most one child process is alive at any moment, it is the one
\* launched last and the run is waiting for it; a restart is launched only
\* when every earlier one has ended or failed to launch.
C9_OneChildAtATime ==
  /\ Cardinality(children) <= 1
  /\ \A c \in children : c.pid = Len(invoked) /\ c.argv = invoked[c.pid]
  /\ children # {} <=> pc \in {"deploy_wait", "restart_wait", "backup_wait"}

\* The second restart is running after the first one has ended.
C9_Witness ==
  /\ pc = "restart_wait"
  /\ idx = 2
  /\ Len(completed) = 1
  /\ Cardinality(children) = 1

\* C10: each command launches only its own kind of child, a bounded number
\* of times and with no retry: deploy bash at most once, backup cp at most
\* once, restart the service manager once per configured service, the other
\* paths nothing; and the configuration in memory stays what load_config
\* made it.
C10_OwnChildrenOnly ==
  /\ pc # "load_config" =>
       config = (IF configFile.kind = "object" THEN configFile.content ELSE get_default_config)
  /\ CASE Command = "deploy" ->
            /\ Len(invoked) <= 1
            /\ \A i \in 1..Len(invoked) : invoked[i][1] = "bash"
       [] Command = "backup" ->
            /\ Len(invoked) <= 1
            /\ \A i \in 1..Len(invoked) : invoked[i][1] = "cp"
       [] Command = "restart" ->
            /\ Len(invoked) <= Len(Services)
            /\ \A i \in 1..Len(invoked) : SubSeq(invoked[i], 1, 3) = <<"sudo", "systemctl", "restart">>
            /\ Ended => Len(invoked) = Len(Services)
       [] OTHER -> invoked = <<>>

\* A deploy whose script failed: one launch, no second one.
C10_Witness ==
  /\ Command = "deploy"
  /\ Ended
  /\ Len(invoked) = 1
  /\ Len(completed) = 1
  /\ completed[1].rc # 0
  /\ ~result.success
====
